---- MODULE Spec2Model ----
(***************************************************************************)
(* Model of tools/finetune_classification_cnn.py: the tensor data          *)
(* generator (TensorDataGenerator: statistics fitting, random_transform,   *)
(* standardize) and the batch iterator (TensorDatasetIterator).            *)
(*                                                                         *)
(* Three specifications share the variables:                               *)
(*   SpecIter       construction of the iterator and concurrent next()     *)
(*   SpecFit        construction of the generator and fit()                *)
(*   SpecTransform  random_transform() and standardize() on one sample     *)
(* The part of the state a specification does not use keeps its initial    *)
(* value.                                                                  *)
(*                                                                         *)
(* Python 2 semantics are used throughout (dict.iteritems, integer "/").   *)
(***************************************************************************)
EXTENDS Integers, Sequences, FiniteSets, TLC

VARIABLES
    ds,          \* the TensorDataset on disk (external collaborator)
    xval,        \* the stored input value of every datapoint
    g_state,     \* "new" | "ready" | "failed": outcome of TensorDataGenerator()
    g_err,       \* exception raised by TensorDataGenerator(), "" if none
    g_opts,      \* the options the generator was constructed with
    g_attrs,     \* attributes TensorDataGenerator.__init__ has assigned itself
    stats,       \* the generator's n, mean, std, ssq (dicts keyed by field)
    fit,         \* program counter and locals of fit()
    tf,          \* program counter and locals of random_transform / standardize
    warned,      \* the warnings reported through the warnings module
    min_output,  \* TensorDataGenerator.min_output (None is modelled as -1)
    max_output,  \* TensorDataGenerator.max_output (None is modelled as -1)
    self,        \* attributes of the TensorDatasetIterator under construction
    it_state,    \* "new" | "built" | "failed": outcome of the constructor
    it_err,      \* exception raised by the constructor, "" if none
    it_args,     \* the field names the constructor was called with
    gen,         \* state of Iterator.index_generator (a Python generator)
    lock,        \* holder of Iterator.lock, NoOne if free
    loc,         \* per consumer: program counter and locals of next()
    heap,        \* batch buffers (np.zeros arrays) that are alive
    batches      \* history: for every claimed batch its epoch, chunks, datapoints

iterVars == <<self, it_state, it_err, it_args, gen, lock, loc, heap, batches>>

fitVars == <<xval, g_state, g_err, g_opts, g_attrs, stats, fit, min_output>>

tfVars == <<tf, warned>>

vars == <<ds, xval, g_state, g_err, g_opts, g_attrs, stats, fit, tf, warned,
          min_output, max_output, self, it_state, it_err, it_args, gen, lock, loc, heap, batches>>

----------------------------------------------------------------------------
(* Bounds of the model *)

MaxTensors == 3
MaxPerFile == 2
MaxBatchSize == 3
MaxBatches == 2
NumLabelValues == 2
MaxValue == 1
ImagePixels == 2
PoseRows == 2

----------------------------------------------------------------------------
(* Helpers *)

Min(a, b) == IF a < b THEN a ELSE b

Max(a, b) == IF a > b THEN a ELSE b

SetMax(S) == CHOOSE m \in S : \A s \in S : s <= m

SetMin(S) == CHOOSE m \in S : \A s \in S : m <= s

Range(f) == {f[i] : i \in DOMAIN f}

\* permutations of 0..n-1 as sequences (np.random.permutation)
Perms(n) == {p \in [1..n -> 0..(n-1)] : \A i, j \in 1..n : i # j => p[i] # p[j]}

\* np.arange(n)
Arange(n) == [i \in 1..n |-> i - 1]

NoOne == "none"

Consumers == {"w1", "w2"}

----------------------------------------------------------------------------
(* The dataset collaborator *)

\* dataset.field_names, and which of the fields hold images (rank 3)
FieldNames == {"color_ims", "rgbd_ims", "pose", "label"}

ImageFields == {"color_ims", "rgbd_ims"}

Datasets ==
    LET shapes == {t \in (1..MaxTensors) \X (1..MaxPerFile) \X (1..MaxPerFile) :
                      t[3] <= t[2]}
    IN {[num_tensors |-> t[1], datapoints_per_file |-> t[2],
         num_datapoints |-> (t[1] - 1) * t[2] + t[3]] : t \in shapes}

\* dataset.datapoint_indices_for_tensor(tensor_ind): the global datapoint
\* indices of one chunk; every chunk but the last holds datapoints_per_file
DatapointIndicesForTensor(d, t) ==
    {i \in 0..(d.num_datapoints - 1) :
        /\ i >= t * d.datapoints_per_file
        /\ i < (t + 1) * d.datapoints_per_file}

\* the label stored for a datapoint
LabelOf(i) == i % NumLabelValues

\* dataset.tensor(y_name, tensor_ind).data: the labels of one chunk, by offset
YTensor(d, t) ==
    LET first == SetMin(DatapointIndicesForTensor(d, t))
        num == Cardinality(DatapointIndicesForTensor(d, t))
    IN [j \in 1..num |-> LabelOf(first + j - 1)]

\* the values fit() can leave in min_output and max_output: the label range
\* over the chunks it selected (any non-empty subset when num_tensors is
\* smaller than the dataset)
FittedOutputs(d) ==
    LET labels(S) == {LabelOf(i) :
                        i \in UNION {DatapointIndicesForTensor(d, t) : t \in S}}
    IN {[min |-> SetMin(labels(S)), max |-> SetMax(labels(S))] :
           S \in (SUBSET (0..(d.num_tensors - 1))) \ {{}}}

----------------------------------------------------------------------------
(* Exact arithmetic for the statistics. The code computes in float64; the  *)
(* model computes the same expressions over the rationals, so rounding is  *)
(* the only thing left out. A rational is [num, den] in lowest terms.      *)

Abs(a) == IF a < 0 THEN -a ELSE a

RECURSIVE GCD(_, _)
GCD(a, b) == IF b = 0 THEN a ELSE GCD(b, a % b)

Rat(n, d) ==
    LET g == GCD(Abs(n), Abs(d))
        sgn == IF d < 0 THEN -1 ELSE 1
    IN IF n = 0 THEN [num |-> 0, den |-> 1]
       ELSE [num |-> sgn * (n \div g), den |-> Abs(d) \div g]

RAdd(a, b) == Rat(a.num * b.den + b.num * a.den, a.den * b.den)

RSub(a, b) == Rat(a.num * b.den - b.num * a.den, a.den * b.den)

RMul(a, b) == Rat(a.num * b.num, a.den * b.den)

RInt(k) == [num |-> k, den |-> 1]

RECURSIVE SeqSum(_)
SeqSum(q) == IF q = <<>> THEN 0 ELSE Head(q) + SeqSum(Tail(q))

RECURSIVE RSeqSum(_)
RSeqSum(q) == IF q = <<>> THEN RInt(0) ELSE RAdd(Head(q), RSeqSum(Tail(q)))

\* an attribute that holds None, a number, or the result of an invalid
\* floating point operation
None == [k |-> "None", v |-> RInt(0)]

Num(r) == [k |-> "num", v |-> r]

NaN == [k |-> "nan", v |-> RInt(0)]

Inf == [k |-> "inf", v |-> RInt(0)]

\* np.sqrt of a number: kept symbolic, v is the number under the root
Sqrt(r) == [k |-> "sqrt", v |-> r]

----------------------------------------------------------------------------
(* The stored input data: one component (one channel of an image field,    *)
(* one row of a flat field) of every entry; the statistics are computed    *)
(* componentwise.                                                          *)

\* the entries of one datapoint: ImagePixels pixels for an image field,
\* one entry for a flat field
DatapointEntries(val, name, i) ==
    IF name \in ImageFields
    THEN [p \in 1..ImagePixels |-> val[i] + (p - 1)]
    ELSE <<val[i]>>

RECURSIVE Concat(_, _, _)
Concat(val, name, dps) ==
    IF dps = <<>> THEN <<>>
    ELSE DatapointEntries(val, name, Head(dps)) \o Concat(val, name, Tail(dps))

\* the datapoints of a chunk in stored order
ChunkDatapoints(d, t) ==
    [j \in 1..Cardinality(DatapointIndicesForTensor(d, t)) |->
        SetMin(DatapointIndicesForTensor(d, t)) + j - 1]

\* dataset.tensor(x_name, tensor_ind).arr, flattened to the entries that
\* are aggregated into one component of the statistics
XTensor(d, val, name, t) == Concat(val, name, ChunkDatapoints(d, t))

----------------------------------------------------------------------------
(* TensorDataGenerator.__init__ *)

GeneratorAttrs ==
    {"image_dropout_rate", "image_gaussian_sigma", "image_gaussian_corrcoef",
     "rot_180", "data_dropout_rate", "data_gaussian_sigma", "image_tf_callback",
     "image_horiz_flip_callback", "image_vert_flip_callback", "n", "mean",
     "std", "ssq", "cov", "principal_components", "min_output", "max_output"}

\* faulty variant: the whitening option is checked after the fields are assigned
GeneratorInitLate(opts) ==
    [err |-> IF opts.zca_whitening THEN "NotImplementedError" ELSE "",
     attrs |-> GeneratorAttrs]

\* lines 44-69: the base class stores the options; whitening is refused
\* before the generator assigns any field of its own
GeneratorInit(opts) ==
    IF opts.zca_whitening
    THEN [err |-> "NotImplementedError", attrs |-> {}]
    ELSE [err |-> "", attrs |-> GeneratorAttrs]

\* a dropout rate is a fraction [num, den]
NoDropout == [num |-> 0, den |-> 1]

\* the options of a generator constructed without arguments (lines 33-43 and
\* the defaults of the base class). rotation stands for rotation_range or
\* rot_180, translation for height_shift_range or width_shift_range, shear
\* for shear_range, zoom for a zoom_range other than 1..1, channel_shift for
\* channel_shift_range. The options not listed here (rescale, the
\* samplewise options, the callbacks, the noise sigmas 1e-6) stay at their
\* defaults.
NoOpts ==
    [zca_whitening |-> FALSE, featurewise_center |-> FALSE,
     featurewise_std_normalization |-> FALSE, rotation |-> FALSE,
     translation |-> FALSE, shear |-> FALSE, zoom |-> FALSE,
     channel_shift |-> FALSE, horizontal_flip |-> FALSE,
     vertical_flip |-> FALSE, image_dropout_rate |-> NoDropout,
     data_dropout_rate |-> NoDropout]

\* self.n, self.mean, self.std, self.ssq as the constructor leaves them:
\* None (isNone); fit() replaces them by dicts, at first without a key
NoStats == [isNone |-> TRUE, n |-> <<>>, mean |-> <<>>, std |-> <<>>, ssq |-> <<>>]

\* locals of fit(): num_tensors and augment as passed, the chunks selected,
\* the field (f) and chunk (i) the loops are at, and per field the chunks
\* loaded for it so far (read; the label field is read in the last pass),
\* the noise random_transform adds under augment
FitIdle ==
    [pc |-> "idle", x_names |-> <<>>, tensor_indices |-> <<>>, f |-> 0,
     i |-> 0, err |-> "", num_tensors |-> [given |-> FALSE, v |-> 0],
     augment |-> FALSE, noise |-> 0, read |-> <<>>]

NewGenerator ==
    /\ g_state = "new"
    /\ \E zca \in BOOLEAN, fc \in BOOLEAN, fs \in BOOLEAN :
          LET opts == [NoOpts EXCEPT !.zca_whitening = zca,
                                     !.featurewise_center = fc,
                                     !.featurewise_std_normalization = fs]
              r == GeneratorInit(opts)
          IN /\ g_opts' = opts
             /\ g_err' = r.err
             /\ g_attrs' = r.attrs
             /\ g_state' = IF r.err = "" THEN "ready" ELSE "failed"
    /\ UNCHANGED iterVars
    /\ UNCHANGED tfVars
    /\ UNCHANGED <<ds, xval, stats, fit, min_output, max_output>>

----------------------------------------------------------------------------
(* TensorDataGenerator.fit *)

\* the values one draw of the noise can add to an entry, in units of the
\* smallest step the entry's float type resolves at sigma 1e-6
NoiseValues == {-1, 0, 1}

FitXNameChoices == {<<"pose">>, <<"color_ims">>, <<"color_ims", "pose">>}

\* faulty variant: the selection is not cut to the number asked for
TensorIndexAll(d, num_tensors) ==
    IF Min(num_tensors, d.num_tensors) < d.num_tensors
    THEN Perms(d.num_tensors) ELSE {Arange(d.num_tensors)}

\* lines 316-322: the chunks fit() works on. All chunks in stored order, or,
\* when fewer are asked for, the first num_tensors of a shuffle.
TensorIndexChoices(d, num_tensors) ==
    LET k == Min(num_tensors, d.num_tensors)
    IN IF k < d.num_tensors
       THEN {SubSeq(p, 1, k) : p \in Perms(d.num_tensors)}
       ELSE {Arange(d.num_tensors)}

\* the num_tensors argument: None (not given) or a number, which may
\* exceed the number of chunks the dataset has
NumTensorsArgs(d) ==
    {[given |-> FALSE, v |-> 0]}
        \cup {[given |-> TRUE, v |-> k] : k \in 0..(d.num_tensors + 1)}

\* lines 316-317: None stands for all chunks
NumTensorsOrAll(arg, d) == IF arg.given THEN arg.v ELSE d.num_tensors

\* extend or overwrite one key of a dict
Put(dict, key, value) ==
    [x \in (DOMAIN dict) \cup {key} |-> IF x = key THEN value ELSE dict[x]]

\* lines 304-322: reset the dicts, choose the chunks
FitStart ==
    /\ g_state = "ready"
    /\ fit.pc = "idle"
    /\ \E x_names \in FitXNameChoices, num_tensors \in NumTensorsArgs(ds),
          augment \in BOOLEAN, noise \in NoiseValues :
         \E tensor_indices \in
                TensorIndexChoices(ds, NumTensorsOrAll(num_tensors, ds)) :
            /\ ~augment => noise = 0
            /\ fit' = [pc |-> "field", x_names |-> x_names,
                       tensor_indices |-> tensor_indices, f |-> 1, i |-> 1,
                       err |-> "", num_tensors |-> num_tensors,
                       augment |-> augment, noise |-> noise, read |-> <<>>]
    /\ stats' = [NoStats EXCEPT !.isNone = FALSE]
    /\ UNCHANGED iterVars
    /\ UNCHANGED tfVars
    /\ UNCHANGED <<ds, xval, g_state, g_err, g_opts, g_attrs, min_output,
                   max_output>>

\* lines 329-334: the storage of one field
FitField ==
    /\ fit.pc = "field"
    /\ fit.f <= Len(fit.x_names)
    /\ LET x_name == fit.x_names[fit.f]
       IN stats' = [isNone |-> FALSE,
                    n |-> Put(stats.n, x_name, 0),
                    mean |-> Put(stats.mean, x_name, None),
                    std |-> Put(stats.std, x_name, None),
                    ssq |-> Put(stats.ssq, x_name, None)]
    /\ fit' = [fit EXCEPT !.pc = "chunk", !.i = 1,
                           !.read = Put(fit.read, fit.x_names[fit.f], <<>>)]
    /\ UNCHANGED iterVars
    /\ UNCHANGED tfVars
    /\ UNCHANGED <<ds, xval, g_state, g_err, g_opts, g_attrs, min_output,
                   max_output>>

\* line 375: mean += chunk_sum / n - n_tensor * m_old / n, n already advanced
MeanUpdate(mean, m_old, x, n) ==
    RAdd(mean, RSub(RMul(RInt(SeqSum(x)), Rat(1, n)),
                    RMul(RMul(RInt(Len(x)), m_old), Rat(1, n))))

\* faulty variant: both factors use the updated mean
SsqIncrementNewMean(x, m_old, mean) ==
    RSeqSum([j \in 1..Len(x) |->
                RMul(RSub(RInt(x[j]), mean), RSub(RInt(x[j]), mean))])

\* lines 389/391: np.sum((arr - m_old) * (arr - self.mean))
SsqIncrement(x, m_old, mean) ==
    RSeqSum([j \in 1..Len(x) |->
                RMul(RSub(RInt(x[j]), m_old), RSub(RInt(x[j]), mean))])

\* lines 337-391: one chunk of one field
AggregateChunk(st, opts, x_name, x) ==
    LET m_old0 == st.mean[x_name]
        mean0 == IF opts.featurewise_center /\ st.mean[x_name].k = "None"
                 THEN Num(RInt(0)) ELSE st.mean[x_name]
        m_old == IF opts.featurewise_center THEN mean0 ELSE m_old0
        n1 == IF opts.featurewise_center THEN st.n[x_name] + Len(x)
              ELSE st.n[x_name]
        mean1 == IF opts.featurewise_center
                 THEN Num(MeanUpdate(mean0.v, m_old.v, x, n1))
                 ELSE mean0
        std1 == IF opts.featurewise_std_normalization /\ st.std[x_name].k = "None"
                THEN Num(RInt(0)) ELSE st.std[x_name]
        ssq0 == IF opts.featurewise_std_normalization /\ st.std[x_name].k = "None"
                THEN Num(RInt(0)) ELSE st.ssq[x_name]
        \* arr - m_old with m_old = np.copy(None) raises TypeError
        bad == opts.featurewise_std_normalization /\ m_old.k = "None"
        ssq1 == IF opts.featurewise_std_normalization /\ ~bad
                THEN Num(RAdd(ssq0.v, SsqIncrement(x, m_old.v, mean1.v)))
                ELSE ssq0
    IN [st |-> [isNone |-> FALSE,
                n |-> Put(st.n, x_name, n1),
                mean |-> Put(st.mean, x_name, mean1),
                std |-> Put(st.std, x_name, std1),
                ssq |-> Put(st.ssq, x_name, ssq1)],
        err |-> IF bad THEN "TypeError" ELSE ""]

\* lines 347-354 (rounds = 1): with augment every row of the chunk goes
\* through random_transform, which with the options fit() is run with here
\* adds noise and nothing else. The random stream of a call is bounded to
\* the streams that add the same value (noise) to every entry.
Augmented(x, noise) == [j \in 1..Len(x) |-> x[j] + noise]

\* lines 337-391: one iteration of the chunk loop of one field
FitChunk ==
    /\ fit.pc = "chunk"
    /\ fit.i <= Len(fit.tensor_indices)
    /\ LET x_name == fit.x_names[fit.f]
           tensor_ind == fit.tensor_indices[fit.i]
           x_tensor == XTensor(ds, xval, x_name, tensor_ind)
           x == IF fit.augment THEN Augmented(x_tensor, fit.noise) ELSE x_tensor
           r == AggregateChunk(stats, g_opts, x_name, x)
       IN /\ stats' = r.st
          /\ fit' = IF r.err = ""
                    THEN [fit EXCEPT !.i = @ + 1,
                                     !.read[x_name] = Append(@, tensor_ind)]
                    ELSE [fit EXCEPT !.pc = "raised", !.err = r.err,
                                     !.read[x_name] = Append(@, tensor_ind)]
    /\ UNCHANGED iterVars
    /\ UNCHANGED tfVars
    /\ UNCHANGED <<ds, xval, g_state, g_err, g_opts, g_attrs, min_output,
                   max_output>>

\* line 394: np.sqrt(ssq / (n - 1)). None / int raises TypeError; a float64
\* array divided by 0 gives nan (0/0) or inf with a RuntimeWarning, no
\* exception; the root of a negative number is nan.
FinalizeStd(ssq, n) ==
    IF ssq.k = "None" THEN [std |-> None, err |-> "TypeError"]
    ELSE IF n - 1 = 0
         THEN [std |-> IF ssq.v.num = 0 THEN NaN ELSE Inf, err |-> ""]
    ELSE IF n - 1 < 0 /\ ssq.v.num > 0 THEN [std |-> NaN, err |-> ""]
    ELSE [std |-> Sqrt(RMul(ssq.v, Rat(1, n - 1))), err |-> ""]

\* lines 393-398: the end of one field
FitFinalize ==
    /\ fit.pc = "chunk"
    /\ fit.i > Len(fit.tensor_indices)
    /\ LET x_name == fit.x_names[fit.f]
           r == FinalizeStd(stats.ssq[x_name], stats.n[x_name])
           err == IF r.err # "" THEN r.err
                  ELSE IF g_opts.zca_whitening THEN "NotImplementedError"
                  ELSE ""
       IN /\ stats' = IF r.err = ""
                      THEN [stats EXCEPT !.std = Put(stats.std, x_name, r.std)]
                      ELSE stats
          /\ fit' = IF err = "" THEN [fit EXCEPT !.pc = "field", !.f = @ + 1]
                    ELSE [fit EXCEPT !.pc = "raised", !.err = err]
    /\ UNCHANGED iterVars
    /\ UNCHANGED tfVars
    /\ UNCHANGED <<ds, xval, g_state, g_err, g_opts, g_attrs, min_output,
                   max_output>>

\* the labels of the chunks fit() selected
SelectedLabels(d, tensor_indices) ==
    UNION {Range(YTensor(d, tensor_indices[i])) : i \in 1..Len(tensor_indices)}

\* lines 400-411: the label range over the selected chunks
FitOutputs ==
    /\ fit.pc = "field"
    /\ fit.f > Len(fit.x_names)
    /\ min_output' = SetMin(SelectedLabels(ds, fit.tensor_indices))
    /\ max_output' = SetMax(SelectedLabels(ds, fit.tensor_indices))
    /\ fit' = [fit EXCEPT !.pc = "done",
                           !.read = Put(fit.read, "label", fit.tensor_indices)]
    /\ UNCHANGED iterVars
    /\ UNCHANGED tfVars
    /\ UNCHANGED <<ds, xval, g_state, g_err, g_opts, g_attrs, stats>>

----------------------------------------------------------------------------
(* TensorDataGenerator.random_transform and standardize on one sample      *)

\* the names bound in the module's namespace: the imports of lines 5-29
\* (the star import of perception.models.constants brings the constants
\* the file uses)
ModuleNames ==
    {"logging", "IPython", "np", "os", "sys", "time", "sm", "ss", "K",
     "Dense", "Input", "GlobalAveragePooling2D", "Model",
     "ImageDataGenerator", "Iterator", "transform_matrix_offset_center",
     "apply_transform", "_obtain_input_shape", "SGD", "to_categorical",
     "YamlConfig", "Image", "RgbdImage", "IMAGENET_DEFAULT_SIZE",
     "IMAGENET_MIN_SIZE", "ResNet50", "vis", "TensorDataset", "Tensor"}

\* evaluating a global name that is not bound raises NameError
NameLookup(name) == IF name \in ModuleNames THEN "" ELSE "NameError"

\* Image.can_convert(x): x is image-like (a rank-3, channel-last array)
CanConvert(name) == name \in ImageFields

\* a sample as dataset.datapoint() returns it: per field the array of one
\* datapoint, flattened (an image of ImagePixels pixels in one channel, a
\* flat array of PoseRows entries)
SampleArray(v, name) ==
    IF CanConvert(name) THEN [p \in 1..ImagePixels |-> v + p - 1]
    ELSE [r \in 1..PoseRows |-> v + r - 1]

SampleFieldSets == {{"color_ims"}, {"pose"}, {"color_ims", "pose"}}

Samples ==
    {[name \in F |-> SampleArray(v, name)] : F \in SampleFieldSets,
                                             v \in 0..MaxValue}

DropoutRates == {NoDropout, [num |-> 1, den |-> 2], [num |-> 1, den |-> 1]}

\* locals of a call: x is the sample as it is now, orig the sample as it
\* was passed in, prev the sample before the step that ran last (step).
\* arg is what the caller's arrays hold now, alias the fields whose array in
\* x is the very array the caller passed (no step has replaced it by a copy)
\* matrix is transform_matrix as the product of its factors in the order
\* they were multiplied (<<>> is None), trace the steps applied so far
NoCall ==
    [pc |-> "idle", step |-> "", x |-> <<>>, orig |-> <<>>, prev |-> <<>>,
     arg |-> <<>>, alias |-> {}, err |-> "", matrix |-> <<>>, trace |-> <<>>]

\* faulty variant: dropout comes before the noise
StepOrderDropoutFirst ==
    <<"affine", "channel_shift", "horizontal_flip", "vertical_flip",
      "dropout", "noise">>

\* lines 167-256: the steps of random_transform in the order of the code
StepOrder ==
    <<"affine", "channel_shift", "horizontal_flip", "vertical_flip",
      "noise", "dropout">>

\* where control goes after a step: the step that follows it, or the return
NextStep(step) ==
    LET i == CHOOSE k \in 1..Len(StepOrder) : StepOrder[k] = step
    IN IF i < Len(StepOrder) THEN StepOrder[i + 1] ELSE "transformed"

\* an operation that writes into the arrays of x (+=, x[ind] = 0) is seen
\* through every reference to the same array
WriteThrough(arg, alias, x) ==
    [name \in DOMAIN arg |-> IF name \in alias THEN x[name] ELSE arg[name]]

\* a call of random_transform(x_dict)
TransformCall ==
    /\ tf.pc = "idle"
    /\ \E x \in Samples :
          tf' = [pc |-> StepOrder[1], step |-> "call", x |-> x, orig |-> x,
                 prev |-> x, arg |-> x, alias |-> DOMAIN x, err |-> "",
                 matrix |-> <<>>, trace |-> <<>>]
    /\ UNCHANGED <<ds, xval, g_state, g_err, g_opts, g_attrs, stats, fit,
                   warned, min_output, max_output>>
    /\ UNCHANGED iterVars

\* lines 207-223: a flip that is switched on is applied with probability
\* 0.5; for an image field it calls flip_axis, for another field the
\* callback (None by default: the field is left alone)
FlipError(enabled, drawn, x) ==
    IF enabled /\ drawn /\ (\E name \in DOMAIN x : CanConvert(name))
    THEN NameLookup("flip_axis") ELSE ""

\* lines 168-190: a factor whose draw is not the identity is multiplied to
\* transform_matrix, in this order
AffineFactors(rotation, translation, shear, zoom) ==
    (IF rotation THEN <<"rotation">> ELSE <<>>)
        \o (IF translation THEN <<"translation">> ELSE <<>>)
        \o (IF shear THEN <<"shear">> ELSE <<>>)
        \o (IF zoom THEN <<"zoom">> ELSE <<>>)

\* apply_transform(x, transform_matrix, ...): a new array, every entry taken
\* from an entry of x (interpolation order 0, fill mode nearest)
Resampled(a) == [DOMAIN a -> Range(a)]

\* lines 140-201: the draws, the composite matrix, its application to the
\* image fields (a field that is no image is left alone, image_tf_callback
\* being None). With a shift range set, line 148 or 153 reads x.shape before
\* x is assigned: UnboundLocalError. A draw can be the identity (theta = 0,
\* zoom 1), the factor is then left out.
Affine ==
    /\ tf.pc = "affine"
    /\ \E nr \in BOOLEAN, ns \in BOOLEAN, nz \in BOOLEAN :
       \E y \in [DOMAIN tf.x -> UNION {Resampled(tf.x[name]) : name \in DOMAIN tf.x}] :
          LET matrix == AffineFactors(g_opts.rotation /\ nr, FALSE,
                                      g_opts.shear /\ ns, g_opts.zoom /\ nz)
              applied == {name \in DOMAIN tf.x : matrix # <<>> /\ CanConvert(name)}
          IN /\ \A name \in DOMAIN tf.x :
                   IF name \in applied THEN y[name] \in Resampled(tf.x[name])
                   ELSE y[name] = tf.x[name]
             /\ ~g_opts.rotation => nr
             /\ ~g_opts.shear => ns
             /\ ~g_opts.zoom => nz
             /\ tf' = IF g_opts.translation
                      THEN [tf EXCEPT !.pc = "raised", !.step = "affine",
                                      !.err = "UnboundLocalError"]
                      ELSE [tf EXCEPT !.pc = NextStep("affine"),
                                      !.step = "affine", !.prev = tf.x,
                                      !.x = y, !.matrix = matrix,
                                      !.alias = tf.alias \ applied,
                                      !.trace = IF matrix # <<>>
                                                THEN Append(@, "affine") ELSE @]
             /\ g_opts.translation =>
                   (nr /\ ns /\ nz /\ y = tf.x)
    /\ UNCHANGED <<ds, xval, g_state, g_err, g_opts, g_attrs, stats, fit,
                   warned, min_output, max_output>>
    /\ UNCHANGED iterVars

\* lines 203-206: with a channel shift range set, random_channel_shift is
\* called, a name the module does not bind
ChannelShift ==
    /\ tf.pc = "channel_shift"
    /\ LET err == IF g_opts.channel_shift
                  THEN NameLookup("random_channel_shift") ELSE ""
       IN tf' = IF err = ""
                THEN [tf EXCEPT !.pc = NextStep("channel_shift"),
                                !.step = "channel_shift", !.prev = tf.x,
                                !.trace = IF g_opts.channel_shift
                                          THEN Append(@, "channel_shift") ELSE @]
                ELSE [tf EXCEPT !.pc = "raised", !.step = "channel_shift",
                                !.err = err]
    /\ UNCHANGED <<ds, xval, g_state, g_err, g_opts, g_attrs, stats, fit,
                   warned, min_output, max_output>>
    /\ UNCHANGED iterVars

\* one flip (lines 207-214, 216-223): drawn with probability 0.5 when it is
\* switched on
Flip(step, enabled) ==
    /\ tf.pc = step
    /\ \E drawn \in BOOLEAN :
          LET err == FlipError(enabled, drawn, tf.x)
          IN /\ ~enabled => ~drawn
             /\ tf' = IF err = ""
                      THEN [tf EXCEPT !.pc = NextStep(step), !.step = step,
                                      !.prev = tf.x,
                                      !.trace = IF enabled /\ drawn
                                                THEN Append(@, step) ELSE @]
                      ELSE [tf EXCEPT !.pc = "raised", !.step = step,
                                      !.err = err]
    /\ UNCHANGED <<ds, xval, g_state, g_err, g_opts, g_attrs, stats, fit,
                   warned, min_output, max_output>>
    /\ UNCHANGED iterVars

HorizontalFlip == Flip("horizontal_flip", g_opts.horizontal_flip)

VerticalFlip == Flip("vertical_flip", g_opts.vertical_flip)

\* lines 225-240: noise is added to every entry of every field, whatever the
\* options: x[:,:,c] += image_noise for an image, x += data_noise otherwise
AddNoise(x, noise) ==
    [name \in DOMAIN x |-> [j \in DOMAIN x[name] |-> x[name][j] + noise[name][j]]]

Noise ==
    /\ tf.pc = "noise"
    /\ \E noise \in [DOMAIN tf.x -> [1..Max(ImagePixels, PoseRows) -> NoiseValues]] :
          tf' = [tf EXCEPT !.pc = NextStep("noise"), !.step = "noise",
                           !.prev = tf.x, !.trace = Append(@, "noise"),
                           !.x = AddNoise(tf.x, noise),
                           !.arg = WriteThrough(tf.arg, tf.alias,
                                                AddNoise(tf.x, noise))]
    /\ UNCHANGED <<ds, xval, g_state, g_err, g_opts, g_attrs, stats, fit,
                   warned, min_output, max_output>>
    /\ UNCHANGED iterVars

\* int(rate * num_vals)
NumDrop(rate, num_vals) == (rate.num * num_vals) \div rate.den

\* the rate that applies to a field
DropoutRate(opts, name) ==
    IF CanConvert(name) THEN opts.image_dropout_rate ELSE opts.data_dropout_rate

\* np.random.choice(num_vals, size=num_drop): num_drop draws from
\* 0..num_vals-1, each independent of the others (with replacement)
DropoutDraws(num_vals, num_drop) == [1..num_drop -> 0..(num_vals - 1)]

\* x[dropout_ind] = 0
ZeroAt(a, dropout_ind) ==
    [j \in DOMAIN a |-> IF (j - 1) \in Range(dropout_ind) THEN 0 ELSE a[j]]

\* lines 242-256: dropout of every field
Dropout ==
    /\ tf.pc = "dropout"
    /\ \E draws \in [DOMAIN tf.x -> UNION {DropoutDraws(n, k) :
                                             n \in {ImagePixels, PoseRows},
                                             k \in 0..Max(ImagePixels, PoseRows)}] :
          /\ \A name \in DOMAIN tf.x :
                draws[name] \in
                    DropoutDraws(Len(tf.x[name]),
                                 NumDrop(DropoutRate(g_opts, name), Len(tf.x[name])))
          /\ tf' = [tf EXCEPT !.pc = NextStep("dropout"), !.step = "dropout",
                              !.prev = tf.x, !.trace = Append(@, "dropout"),
                              !.x = [name \in DOMAIN tf.x |->
                                        ZeroAt(tf.x[name], draws[name])],
                              !.arg = WriteThrough(tf.arg, tf.alias,
                                        [name \in DOMAIN tf.x |->
                                            ZeroAt(tf.x[name], draws[name])])]
    /\ UNCHANGED <<ds, xval, g_state, g_err, g_opts, g_attrs, stats, fit,
                   warned, min_output, max_output>>
    /\ UNCHANGED iterVars

\* lines 96-111 for one field of a generator that was never fitted
\* (self.mean and self.std are None): each featurewise option that is on
\* goes to its else branch, which evaluates warnings.warn
FeaturewiseUnfitted(opts) ==
    IF opts.featurewise_center \/ opts.featurewise_std_normalization
    THEN [err |-> NameLookup("warnings"),
          warnings |-> IF NameLookup("warnings") # "" THEN {}
                       ELSE (IF opts.featurewise_center
                             THEN {"featurewise_center"} ELSE {})
                            \cup (IF opts.featurewise_std_normalization
                                  THEN {"featurewise_std_normalization"} ELSE {})]
    ELSE [err |-> "", warnings |-> {}]

\* standardize(x_dict) on the result of random_transform, as in
\* _preprocess_input. preprocessing_function, rescale and the samplewise
\* options are off, the generator was never fitted.
Standardize ==
    /\ tf.pc = "transformed"
    /\ stats.isNone
    /\ LET r == FeaturewiseUnfitted(g_opts)
       IN /\ tf' = IF r.err = ""
                   THEN [tf EXCEPT !.pc = "standardized",
                                   !.step = "standardize", !.prev = tf.x,
                                   !.trace = Append(@, "standardize")]
                   ELSE [tf EXCEPT !.pc = "raised", !.step = "standardize",
                                   !.err = r.err]
          /\ warned' = warned \cup r.warnings
    /\ UNCHANGED <<ds, xval, g_state, g_err, g_opts, g_attrs, stats, fit,
                   min_output, max_output>>
    /\ UNCHANGED iterVars

\* the generators the transform is run on: the flips and the featurewise
\* options on or off with one dropout rate for image and flat fields, and
\* the affine factors, the channel shift and the flips on or off
TransformOptions ==
    {[NoOpts EXCEPT !.featurewise_center = fc,
                    !.featurewise_std_normalization = fs,
                    !.horizontal_flip = hf, !.vertical_flip = vf,
                    !.image_dropout_rate = r, !.data_dropout_rate = r] :
        fc \in BOOLEAN, fs \in BOOLEAN, hf \in BOOLEAN, vf \in BOOLEAN,
        r \in DropoutRates}
    \cup
    {[NoOpts EXCEPT !.rotation = ro, !.translation = tr, !.shear = sh,
                    !.zoom = zo, !.channel_shift = cs,
                    !.horizontal_flip = hf, !.vertical_flip = vf] :
        ro \in BOOLEAN, tr \in BOOLEAN, sh \in BOOLEAN, zo \in BOOLEAN,
        cs \in BOOLEAN, hf \in BOOLEAN, vf \in BOOLEAN}

----------------------------------------------------------------------------
(* TensorDatasetIterator.__init__ *)

\* the iterator before any attribute is assigned
NoIterator ==
    [assigned |-> {}, x_names |-> <<>>, y_name |-> "", batch_size |-> 0,
     num_classes |-> 0, iter_batch_size |-> 0, tensors_per_batch |-> 0]

\* the index generator before Iterator.__init__ has created it
NoGenerator ==
    [live |-> FALSE, n |-> 0, batch_size |-> 0, shuffle |-> FALSE,
     batch_index |-> 0, total_batches_seen |-> 0, index_array |-> <<>>,
     epoch |-> 0]

IteratorAttrs ==
    {"dataset", "x_names", "y_name", "batch_size", "num_classes",
     "data_generator", "data_format", "save_to_dir", "save_prefix",
     "save_format", "iter_batch_size", "tensors_per_batch"}

\* the two membership checks that open the constructor
NamesDeclared(x_names, y_name) ==
    /\ \A i \in 1..Len(x_names) : x_names[i] \in FieldNames
    /\ y_name \in FieldNames

\* the attribute assignments and the base class constructor
\* (Iterator.__init__(n, batch_size, shuffle, seed) creates the lock and
\* the index generator over n = num_tensors, tensors_per_batch at a time)
BuildIterator(d, x_names, y_name, batch_size, num_classes, shuffle) ==
    LET tpb == 1 + (batch_size \div d.datapoints_per_file)
    IN [err |-> "",
        self |-> [assigned |-> IteratorAttrs, x_names |-> x_names,
                  y_name |-> y_name, batch_size |-> batch_size,
                  num_classes |-> num_classes, iter_batch_size |-> batch_size,
                  tensors_per_batch |-> tpb],
        gen |-> [live |-> TRUE, n |-> d.num_tensors, batch_size |-> tpb,
                 shuffle |-> shuffle, batch_index |-> 0,
                 total_batches_seen |-> 0, index_array |-> <<>>, epoch |-> 0]]

\* faulty variant: the names are checked after the attributes have been assigned
IteratorInitLate(d, x_names, y_name, batch_size, num_classes, shuffle) ==
    [err |-> IF NamesDeclared(x_names, y_name) THEN "" ELSE "ValueError",
     self |-> BuildIterator(d, x_names, y_name, batch_size, num_classes,
                            shuffle).self,
     gen |-> IF NamesDeclared(x_names, y_name)
             THEN BuildIterator(d, x_names, y_name, batch_size, num_classes,
                                shuffle).gen
             ELSE NoGenerator]

\* the whole constructor: what it raises, and the state it leaves
IteratorInit(d, x_names, y_name, batch_size, num_classes, shuffle) ==
    IF ~NamesDeclared(x_names, y_name)
    THEN [err |-> "ValueError", self |-> NoIterator, gen |-> NoGenerator]
    ELSE BuildIterator(d, x_names, y_name, batch_size, num_classes, shuffle)

XNameChoices ==
    {<<"color_ims">>, <<"color_ims", "rgbd_ims">>, <<"pose">>,
     <<"colour_ims">>, <<"color_ims", "rgbd">>}

YNameChoices == {"label", "labels"}

\* consumer locals before a call of next()
Idle ==
    [pc |-> "idle", index_array |-> <<>>, bid |-> 0, buf |-> 0,
     num_queued |-> 0, pos |-> 0, err |-> ""]

\* generator.flow_from_dataset(dataset, x_names, y_name, batch_size, shuffle):
\* constructs the iterator with num_classes = max_output + 1
FlowFromDataset ==
    /\ it_state = "new"
    /\ \E x_names \in XNameChoices, y_name \in YNameChoices,
          batch_size \in 1..MaxBatchSize, shuffle \in BOOLEAN :
          LET r == IteratorInit(ds, x_names, y_name, batch_size,
                                max_output + 1, shuffle)
          IN /\ self' = r.self
             /\ gen' = r.gen
             /\ it_err' = r.err
             /\ it_args' = [x_names |-> x_names, y_name |-> y_name]
             /\ it_state' = IF r.err = "" THEN "built" ELSE "failed"
    /\ UNCHANGED fitVars
    /\ UNCHANGED tfVars
    /\ UNCHANGED <<ds, max_output, lock, loc, heap, batches>>

----------------------------------------------------------------------------
(* Iterator.index_generator: the generator Iterator.__init__ creates from   *)
(* _flow_index(n, batch_size, shuffle, seed) of the Keras base class. One  *)
(* step yields (index_array[current_index : current_index +                *)
(* current_batch_size], current_index, current_batch_size).                *)

\* the orders the generator can start an epoch with
EpochOrders(g) ==
    IF g.batch_index = 0 /\ g.shuffle THEN Perms(g.n) ELSE {Arange(g.n)}

\* one next(self.index_generator), the epoch starting in the order `order`
FlowIndex(g, order) ==
    LET ia == IF g.batch_index = 0 THEN order ELSE g.index_array
        current_index == (g.batch_index * g.batch_size) % g.n
        whole == g.n > current_index + g.batch_size
        current_batch_size == IF whole THEN g.batch_size ELSE g.n - current_index
    IN [gen |-> [g EXCEPT !.index_array = ia,
                          !.batch_index = IF whole THEN @ + 1 ELSE 0,
                          !.total_batches_seen = @ + 1,
                          !.epoch = IF g.batch_index = 0 THEN @ + 1 ELSE @],
        index_array |-> SubSeq(ia, current_index + 1,
                               current_index + current_batch_size)]

----------------------------------------------------------------------------
(* TensorDatasetIterator._get_batches_of_transformed_samples *)

\* an entry of a freshly allocated np.zeros buffer
Placeholder == -1

ZeroRow(num_classes) == [k \in 1..num_classes |-> 0]

\* faulty variant: the 1 is put one column too far
ToCategoricalShifted(label, num_classes) ==
    [k \in 1..num_classes |-> IF k = label + 2 THEN 1 ELSE 0]

\* keras.utils.to_categorical of one label
ToCategorical(label, num_classes) ==
    [k \in 1..num_classes |-> IF k = label + 1 THEN 1 ELSE 0]

\* batch_x and batch_y as allocated: batch_size rows of zeros per input field
\* and for the labels. A row of batch_x holds the datapoint written to it, a
\* row of batch_y the datapoint and the one-hot row of its label.
NewBuffer(it, owner) ==
    [owner |-> owner, writers |-> {},
     x |-> [name \in Range(it.x_names) |->
               [s \in 1..it.iter_batch_size |-> Placeholder]],
     y |-> [s \in 1..it.iter_batch_size |->
               [dp |-> Placeholder, row |-> ZeroRow(it.num_classes)]]]

\* faulty variant: one buffer, kept on the iterator, is reused by every call
BufferShared(h) == 1

\* the buffer a call writes to: np.zeros returns storage that no live buffer
\* occupies (the lowest free address here)
BufferFor(h) == CHOOSE b \in 1..(Cardinality(DOMAIN h) + 1) : b \notin DOMAIN h

\* the slot index after one field of one datapoint has been written
NextXInd(x_ind) == x_ind + 1

\* lines 494-501: every sampled datapoint is written to every input field,
\* starting at slot num_queued; j counts the writes done so far. An index
\* past the end of the buffer raises IndexError.
RECURSIVE FillX(_, _, _, _, _)
FillX(bx, x_names, indices, j, x_ind) ==
    IF j >= Len(indices) * Len(x_names)
    THEN [x |-> bx, err |-> ""]
    ELSE LET i == (j \div Len(x_names)) + 1
             name == x_names[(j % Len(x_names)) + 1]
         IN IF x_ind >= Len(bx[name])
            THEN [x |-> bx, err |-> "IndexError"]
            ELSE FillX([bx EXCEPT ![name][x_ind + 1] = indices[i]],
                       x_names, indices, j + 1, NextXInd(x_ind))

\* lines 504-508: the labels of the sampled datapoints are read from the
\* chunk's label tensor by offset (norm_indices = indices - first index; a
\* negative offset counts from the end, an offset outside the tensor raises
\* IndexError) and written one-hot to rows y_ind .. y_ind + num_to_sample - 1.
\* to_categorical raises IndexError for a label that is not below num_classes.
FillY(by, d, tensor_ind, indices, num_classes, y_ind) ==
    LET first_datapoint_index == SetMin(DatapointIndicesForTensor(d, tensor_ind))
        y_tensor == YTensor(d, tensor_ind)
        norm(i) == indices[i] - first_datapoint_index
        offset(i) == IF norm(i) < 0 THEN Len(y_tensor) + norm(i) ELSE norm(i)
        label(i) == y_tensor[offset(i) + 1]
    IN IF \E i \in 1..Len(indices) : offset(i) \notin 0..(Len(y_tensor) - 1)
       THEN [y |-> by, err |-> "IndexError"]
       ELSE IF \E i \in 1..Len(indices) : label(i) >= num_classes
       THEN [y |-> by, err |-> "IndexError"]
       ELSE [y |-> [s \in DOMAIN by |->
                       IF s - y_ind \in 1..Len(indices)
                       THEN [dp |-> indices[s - y_ind],
                             row |-> ToCategorical(label(s - y_ind), num_classes)]
                       ELSE by[s]],
             err |-> ""]

\* faulty variant: the samples are drawn from the whole dataset
SamplePoolAll(d, tensor_ind) == 0..(d.num_datapoints - 1)

\* the datapoints a chunk's samples are drawn from (np.random.choice over
\* datapoint_indices_for_tensor(tensor_ind))
SamplePool(d, tensor_ind) == DatapointIndicesForTensor(d, tensor_ind)

\* lines 526-532: every input field is cut to 3 channels and resized; a
\* field whose datapoints are not rank-3 arrays cannot be sliced im[:,:,:3]
ResizeError(x_names) ==
    IF \E i \in 1..Len(x_names) : x_names[i] \notin ImageFields
    THEN "IndexError" ELSE ""

----------------------------------------------------------------------------
(* TensorDatasetIterator.next, called by the consumers *)

\* faulty variant: the claim step is entered without waiting for the lock
CanAcquireAlways(l) == TRUE

\* `with self.lock:` blocks while another consumer holds the lock
CanAcquire(l) == l = NoOne

Acquire(c) ==
    /\ it_state = "built"
    /\ loc[c].pc = "idle"
    /\ gen.total_batches_seen < MaxBatches
    /\ CanAcquire(lock)
    /\ lock' = c
    /\ loc' = [loc EXCEPT ![c].pc = "locked"]
    /\ UNCHANGED fitVars
    /\ UNCHANGED tfVars
    /\ UNCHANGED <<ds, max_output, self, it_state, it_err, it_args, gen, heap, batches>>

\* index_array = next(self.index_generator)
NextIndex(c) ==
    /\ loc[c].pc = "locked"
    /\ gen.live
    /\ \E order \in EpochOrders(gen) :
          LET r == FlowIndex(gen, order)
              bid == r.gen.total_batches_seen
          IN /\ gen' = r.gen
             /\ loc' = [loc EXCEPT ![c].pc = "claimed",
                                   ![c].index_array = r.index_array,
                                   ![c].bid = bid]
             /\ batches' = [b \in 1..bid |->
                              IF b = bid
                              THEN [epoch |-> r.gen.epoch,
                                    chunks |-> Range(r.index_array),
                                    dps |-> {}]
                              ELSE batches[b]]
    /\ UNCHANGED fitVars
    /\ UNCHANGED tfVars
    /\ UNCHANGED <<ds, max_output, self, it_state, it_err, it_args, lock, heap>>

\* next(self.index_generator) raises: StopIteration once the generator has
\* finished, or an exception raised inside the generator (MemoryError from
\* np.arange or np.random.permutation), which finishes the generator
NextIndexRaises(c) ==
    /\ loc[c].pc = "locked"
    /\ gen' = [gen EXCEPT !.live = FALSE]
    /\ loc' = [loc EXCEPT ![c].pc = "claimed",
                          ![c].err = IF gen.live THEN "MemoryError"
                                     ELSE "StopIteration"]
    /\ UNCHANGED fitVars
    /\ UNCHANGED tfVars
    /\ UNCHANGED <<ds, max_output, self, it_state, it_err, it_args, lock, heap,
                   batches>>

\* the end of the with block: the lock is released however the block ended
Release(c) ==
    /\ loc[c].pc = "claimed"
    /\ lock' = IF lock = c THEN NoOne ELSE lock
    /\ loc' = [loc EXCEPT ![c].pc = IF loc[c].err = "" THEN "alloc" ELSE "raised"]
    /\ UNCHANGED fitVars
    /\ UNCHANGED tfVars
    /\ UNCHANGED <<ds, max_output, self, it_state, it_err, it_args, gen, heap, batches>>

\* lines 469-480: allocate batch_x, batch_y; num_queued = 0
Allocate(c) ==
    /\ loc[c].pc = "alloc"
    /\ LET b == BufferFor(heap)
       IN /\ heap' = [i \in (DOMAIN heap) \cup {b} |->
                         IF i \in DOMAIN heap THEN heap[i] ELSE NewBuffer(self, c)]
          /\ loc' = [loc EXCEPT ![c].pc = "load", ![c].buf = b,
                                ![c].num_queued = 0, ![c].pos = 1]
    /\ UNCHANGED fitVars
    /\ UNCHANGED tfVars
    /\ UNCHANGED <<ds, max_output, self, it_state, it_err, it_args, gen, lock, batches>>

\* one iteration of `for tensor_ind in index_array[0]`
LoadChunk(c) ==
    /\ loc[c].pc = "load"
    /\ loc[c].pos <= Len(loc[c].index_array)
    /\ LET tensor_ind == loc[c].index_array[loc[c].pos]
           num_queued == loc[c].num_queued
           num_remaining == self.iter_batch_size - num_queued
           num_datapoints == Cardinality(DatapointIndicesForTensor(ds, tensor_ind))
           num_to_sample == Min(num_datapoints, num_remaining)
           b == loc[c].buf
       IN \E indices \in [1..num_to_sample -> SamplePool(ds, tensor_ind)] :
            LET fx == FillX(heap[b].x, self.x_names, indices, 0, num_queued)
                fy == IF fx.err = ""
                      THEN FillY(heap[b].y, ds, tensor_ind, indices,
                                 self.num_classes, num_queued)
                      ELSE [y |-> heap[b].y, err |-> fx.err]
            IN /\ heap' = [heap EXCEPT ![b].x = fx.x, ![b].y = fy.y,
                                       ![b].writers = @ \cup {c}]
               /\ batches' = [batches EXCEPT ![loc[c].bid].dps =
                                                @ \cup Range(indices)]
               /\ loc' = IF fy.err = ""
                         THEN [loc EXCEPT ![c].pos = @ + 1,
                                          ![c].num_queued = @ + num_to_sample]
                         ELSE [loc EXCEPT ![c].pc = "raised", ![c].err = fy.err]
    /\ UNCHANGED fitVars
    /\ UNCHANGED tfVars
    /\ UNCHANGED <<ds, max_output, self, it_state, it_err, it_args, gen, lock>>

\* the end of the loop: resize every input field and return the batch
Finish(c) ==
    /\ loc[c].pc = "load"
    /\ loc[c].pos > Len(loc[c].index_array)
    /\ loc' = IF ResizeError(self.x_names) = ""
              THEN [loc EXCEPT ![c].pc = "done"]
              ELSE [loc EXCEPT ![c].pc = "raised",
                               ![c].err = ResizeError(self.x_names)]
    /\ UNCHANGED fitVars
    /\ UNCHANGED tfVars
    /\ UNCHANGED <<ds, max_output, self, it_state, it_err, it_args, gen, lock, heap,
                   batches>>

\* the caller takes the batch (or the exception); the locals are gone
Return(c) ==
    /\ loc[c].pc \in {"done", "raised"}
    /\ heap' = [i \in (DOMAIN heap) \ {loc[c].buf} |-> heap[i]]
    /\ loc' = [loc EXCEPT ![c] = Idle]
    /\ UNCHANGED fitVars
    /\ UNCHANGED tfVars
    /\ UNCHANGED <<ds, max_output, self, it_state, it_err, it_args, gen, lock, batches>>

\* the iterator is made from a generator that has been fitted on the
\* dataset (both featurewise options on); of the generator's state next()
\* reads only max_output, the statistics are left out here
InitIter ==
    /\ ds \in Datasets
    /\ xval = <<>>
    /\ g_state = "ready"
    /\ g_err = ""
    /\ g_opts = [NoOpts EXCEPT !.featurewise_center = TRUE,
                               !.featurewise_std_normalization = TRUE]
    /\ g_attrs = GeneratorAttrs
    /\ stats = NoStats
    /\ fit = [FitIdle EXCEPT !.pc = "done"]
    /\ tf = NoCall
    /\ warned = {}
    /\ \E o \in FittedOutputs(ds) : min_output = o.min /\ max_output = o.max
    /\ self = NoIterator
    /\ it_state = "new"
    /\ it_err = ""
    /\ it_args = [x_names |-> <<>>, y_name |-> ""]
    /\ gen = NoGenerator
    /\ lock = NoOne
    /\ loc = [c \in Consumers |-> Idle]
    /\ heap = <<>>
    /\ batches = <<>>

NextIter ==
    \/ FlowFromDataset
    \/ \E c \in Consumers : Acquire(c)
    \/ \E c \in Consumers : NextIndex(c)
    \/ \E c \in Consumers : NextIndexRaises(c)
    \/ \E c \in Consumers : Release(c)
    \/ \E c \in Consumers : Allocate(c)
    \/ \E c \in Consumers : LoadChunk(c)
    \/ \E c \in Consumers : Finish(c)
    \/ \E c \in Consumers : Return(c)

SpecIter == InitIter /\ [][NextIter]_vars

\* a consumer thread inside the with block keeps running: the call of
\* next(self.index_generator) returns or raises, and the block is left
FairIter ==
    \A c \in Consumers :
        /\ WF_vars(NextIndex(c) \/ NextIndexRaises(c))
        /\ WF_vars(Release(c))

SpecIterFair == SpecIter /\ FairIter

InitFit ==
    /\ ds \in Datasets
    /\ xval \in [0..(ds.num_datapoints - 1) -> 0..MaxValue]
    /\ g_state = "new"
    /\ g_err = ""
    /\ g_opts = NoOpts
    /\ g_attrs = {}
    /\ stats = NoStats
    /\ fit = FitIdle
    /\ tf = NoCall
    /\ warned = {}
    /\ min_output = -1
    /\ max_output = -1
    /\ self = NoIterator
    /\ it_state = "new"
    /\ it_err = ""
    /\ it_args = [x_names |-> <<>>, y_name |-> ""]
    /\ gen = NoGenerator
    /\ lock = NoOne
    /\ loc = [c \in Consumers |-> Idle]
    /\ heap = <<>>
    /\ batches = <<>>

NextFit ==
    \/ NewGenerator
    \/ FitStart
    \/ FitField
    \/ FitChunk
    \/ FitFinalize
    \/ FitOutputs

SpecFit == InitFit /\ [][NextFit]_vars

\* a generator as constructed, never fitted
InitTransform ==
    /\ ds = [num_tensors |-> 1, datapoints_per_file |-> 1, num_datapoints |-> 1]
    /\ xval = <<>>
    /\ g_state = "ready"
    /\ g_err = ""
    /\ g_opts \in TransformOptions
    /\ g_attrs = GeneratorAttrs
    /\ stats = NoStats
    /\ fit = FitIdle
    /\ tf = NoCall
    /\ warned = {}
    /\ min_output = -1
    /\ max_output = -1
    /\ self = NoIterator
    /\ it_state = "new"
    /\ it_err = ""
    /\ it_args = [x_names |-> <<>>, y_name |-> ""]
    /\ gen = NoGenerator
    /\ lock = NoOne
    /\ loc = [c \in Consumers |-> Idle]
    /\ heap = <<>>
    /\ batches = <<>>

NextTransform ==
    \/ TransformCall
    \/ Affine
    \/ ChannelShift
    \/ HorizontalFlip
    \/ VerticalFlip
    \/ Noise
    \/ Dropout
    \/ Standardize

SpecTransform == InitTransform /\ [][NextTransform]_vars

----------------------------------------------------------------------------
(* Claims about the generator's constructor and fit(), checked under       *)
(* SpecFit                                                                 *)

\* the entries fit() has aggregated for a field: those of the selected chunks
RECURSIVE SelectedEntries(_, _)
SelectedEntries(name, tis) ==
    IF tis = <<>> THEN <<>>
    ELSE XTensor(ds, xval, name, Head(tis)) \o SelectedEntries(name, Tail(tis))

\* the sum of squared deviations from the mean, computed on all entries at once
DirectSsq(x) ==
    LET mean == Rat(SeqSum(x), Len(x))
    IN RSeqSum([j \in 1..Len(x) |->
                   RMul(RSub(RInt(x[j]), mean), RSub(RInt(x[j]), mean))])

BothFeaturewise ==
    g_opts.featurewise_center /\ g_opts.featurewise_std_normalization

\* C5: after fit() with featurewise_center and featurewise_std_normalization
\* on (augment off), for every fitted field n is the number of aggregated
\* entries, mean is their sum divided by n and ssq is the sum of their
\* squared deviations from that mean: the chunk-by-chunk result equals the
\* one computed on the concatenated data, however the data is chunked.
C5_IncrementalEqualsDirect ==
    (fit.pc = "done" /\ BothFeaturewise /\ ~fit.augment) =>
        \A f \in 1..Len(fit.x_names) :
            LET name == fit.x_names[f]
                x == SelectedEntries(name, fit.tensor_indices)
            IN /\ stats.n[name] = Len(x)
               /\ stats.mean[name] = Num(Rat(SeqSum(x), Len(x)))
               /\ stats.ssq[name] = Num(DirectSsq(x))

\* C5 witness: a fit over two fields and at least two chunks, taken in
\* shuffled order, has finished with a mean that is no integer and a
\* positive sum of squares.
C5_Witness ==
    /\ fit.pc = "done"
    /\ BothFeaturewise
    /\ ~fit.augment
    /\ Len(fit.x_names) = 2
    /\ Len(fit.tensor_indices) >= 2
    /\ fit.tensor_indices[1] > fit.tensor_indices[2]
    /\ stats.mean["pose"].v.den > 1
    /\ stats.ssq["pose"].v.num > 0

\* the chunk loop of field f has run to its end
Aggregated(f) ==
    \/ fit.pc \in {"field", "done"} /\ fit.f > f
    \/ fit.pc = "raised" /\ fit.f = f /\ fit.i > Len(fit.tensor_indices)

\* C6 (as claimed): whenever the running count of a fitted field is <= 1
\* when its std is finalized, fit() fails with DegenerateInputError, and no
\* NaN or inf is ever stored as a std.
C6_DegenerateInputRaises ==
    /\ \A name \in DOMAIN stats.std : stats.std[name].k \notin {"nan", "inf"}
    /\ \A f \in 1..Len(fit.x_names) :
          (/\ Aggregated(f)
           /\ stats.ssq[fit.x_names[f]].k = "num"
           /\ stats.n[fit.x_names[f]] <= 1) =>
              (fit.pc = "raised" /\ fit.err = "DegenerateInputError")

\* C8: a generator asked for zca_whitening is never built: the constructor
\* raises NotImplementedError before it assigns any of its statistics
\* fields, so fit() never runs, let alone completes, with whitening enabled.
C8_WhiteningRefused ==
    /\ (g_state # "new" /\ g_opts.zca_whitening) =>
          /\ g_state = "failed"
          /\ g_err = "NotImplementedError"
          /\ g_attrs = {}
          /\ fit.pc = "idle"
          /\ stats = NoStats
    /\ (g_state # "new" /\ ~g_opts.zca_whitening) =>
          /\ g_state = "ready"
          /\ g_err = ""
          /\ g_attrs = GeneratorAttrs
    /\ fit.pc = "done" => ~g_opts.zca_whitening

\* C8 witness: a constructor call with zca_whitening and both featurewise
\* options has raised.
C8_Witness ==
    /\ g_state = "failed"
    /\ g_opts.zca_whitening
    /\ BothFeaturewise

IsPrefix(p, q) == Len(p) <= Len(q) /\ p = SubSeq(q, 1, Len(p))

\* C12: a call of fit() works on one selection of chunks: it has
\* min(num_tensors, dataset.num_tensors) elements (all chunks for None),
\* they are distinct chunk indices of the dataset, in stored order unless
\* fewer chunks than the dataset has were asked for; every input field and
\* the label pass load exactly these chunks, in this order; and after fit
\* min_output and max_output are the least and the greatest label of these
\* chunks, with and without augment.
C12_OneChunkSelection ==
    fit.pc # "idle" =>
        LET tis == fit.tensor_indices
            k == Min(NumTensorsOrAll(fit.num_tensors, ds), ds.num_tensors)
            labels == {LabelOf(i) :
                          i \in UNION {DatapointIndicesForTensor(ds, t) :
                                          t \in Range(tis)}}
        IN /\ Len(tis) = k
           /\ Range(tis) \subseteq 0..(ds.num_tensors - 1)
           /\ Cardinality(Range(tis)) = Len(tis)
           /\ k = ds.num_tensors => tis = Arange(ds.num_tensors)
           /\ \A name \in DOMAIN fit.read : IsPrefix(fit.read[name], tis)
           /\ \A f \in 1..Len(fit.x_names) :
                  Aggregated(f) => fit.read[fit.x_names[f]] = tis
           /\ fit.pc = "done" =>
                  /\ fit.read["label"] = tis
                  /\ min_output = SetMin(labels)
                  /\ max_output = SetMax(labels)

\* C12 witness: a fit with augment that was asked for two chunks of a
\* dataset with three has finished on a shuffled selection that leaves
\* out chunk 0.
C12_Witness ==
    /\ fit.pc = "done"
    /\ fit.augment
    /\ fit.num_tensors.given /\ fit.num_tensors.v = 2
    /\ ds.num_tensors = 3
    /\ fit.tensor_indices[1] > fit.tensor_indices[2]
    /\ 0 \notin Range(fit.tensor_indices)

\* every fitted field has at least two entries in the selected chunks
EnoughEntries ==
    \A f \in 1..Len(fit.x_names) :
        Len(SelectedEntries(fit.x_names[f], fit.tensor_indices)) >= 2

\* C16 (as claimed): whatever the two featurewise options are, fit() on
\* data with at least two entries per field does not raise, and when it has
\* finished every field's count is the number of entries aggregated, its
\* std is sqrt(ssq / (n - 1)), and min_output and max_output are the label
\* range of the selected chunks.
C16_FitCompletesForAllToggles ==
    (fit.pc # "idle" /\ EnoughEntries) =>
        /\ fit.pc # "raised"
        /\ fit.pc = "done" =>
              /\ \A f \in 1..Len(fit.x_names) :
                    LET name == fit.x_names[f]
                    IN /\ stats.n[name] =
                              Len(SelectedEntries(name, fit.tensor_indices))
                       /\ stats.ssq[name].k = "num"
                       /\ stats.std[name] =
                              Sqrt(RMul(stats.ssq[name].v,
                                        Rat(1, stats.n[name] - 1)))
              /\ min_output = SetMin(SelectedLabels(ds, fit.tensor_indices))
              /\ max_output = SetMax(SelectedLabels(ds, fit.tensor_indices))

----------------------------------------------------------------------------
(* Claims about random_transform and standardize, checked under            *)
(* SpecTransform                                                           *)

IsZeroRate(rate) == rate.num = 0

IsOneRate(rate) == rate.num = rate.den

\* C4 (as claimed): in the dropout step, a field whose dropout rate is 0.0
\* keeps every entry, and a field whose dropout rate is 1.0 has every entry
\* zero after the step, whatever the random draws.
C4_DropoutExtremes ==
    tf.step = "dropout" =>
        \A name \in DOMAIN tf.x :
            /\ IsZeroRate(DropoutRate(g_opts, name)) => tf.x[name] = tf.prev[name]
            /\ IsOneRate(DropoutRate(g_opts, name)) =>
                   \A j \in DOMAIN tf.x[name] : tf.x[name][j] = 0

\* C9 (as claimed): standardize() on a generator with featurewise_center or
\* featurewise_std_normalization on that was never fitted reports a
\* warning, skips the featurewise step and returns the sample; it does not
\* raise.
C9_UnfittedWarnsAndReturns ==
    (/\ tf.step = "standardize"
     /\ stats.isNone
     /\ g_opts.featurewise_center \/ g_opts.featurewise_std_normalization) =>
        /\ tf.pc = "standardized"
        /\ tf.err = ""
        /\ warned # {}
        /\ tf.x = tf.prev

AllTogglesOff == g_opts = NoOpts

\* C10 (as claimed): with every augmentation and normalization toggle off,
\* no step of random_transform alters an entry, and
\* standardize(random_transform(x)) returns arrays equal to those of x.
C10_IdentityWhenAllOff ==
    (AllTogglesOff /\ tf.pc # "idle") =>
        /\ tf.err = ""
        /\ tf.x = tf.orig

\* C11 (as claimed): random_transform is a pure function of its input: the
\* arrays the caller passed in hold, during and after the call, what they
\* held when the call was made.
C11_TransformPure ==
    tf.pc # "idle" => tf.arg = tf.orig

\* the order the steps are to be applied in
ClaimedOrder ==
    <<"affine", "channel_shift", "horizontal_flip", "vertical_flip", "noise",
      "dropout", "standardize">>

Rank(order, step) == CHOOSE k \in 1..Len(order) : order[k] = step

\* q lists elements of order, each at most once, in the order of order
InOrder(q, order) ==
    /\ Range(q) \subseteq Range(order)
    /\ \A i, j \in 1..Len(q) : i < j => Rank(order, q[i]) < Rank(order, q[j])

StepEnabled(step) ==
    CASE step = "affine" ->
             g_opts.rotation \/ g_opts.translation \/ g_opts.shear \/ g_opts.zoom
      [] step = "channel_shift" -> g_opts.channel_shift
      [] step = "horizontal_flip" -> g_opts.horizontal_flip
      [] step = "vertical_flip" -> g_opts.vertical_flip
      [] OTHER -> TRUE

----------------------------------------------------------------------------
(* Claims about the iterator, checked under SpecIter *)

InFlight(c) == loc[c].pc \in {"load", "done"}

\* C1 (as claimed): every batch next() returns holds exactly batch_size
\* sampled datapoints: num_queued = batch_size after the fill loop and no
\* row of any input field or of the label batch is still a placeholder.
C1_EveryBatchFull ==
    \A c \in Consumers :
        loc[c].pc = "done" =>
            /\ loc[c].num_queued = self.iter_batch_size
            /\ \A name \in DOMAIN heap[loc[c].buf].x :
                   \A s \in 1..self.iter_batch_size :
                       heap[loc[c].buf].x[name][s] # Placeholder
            /\ \A s \in 1..self.iter_batch_size :
                   heap[loc[c].buf].y[s].dp # Placeholder

\* C2: two batches claimed in the same epoch are handed disjoint chunk
\* index arrays and never share a sampled datapoint index, and a batch
\* samples datapoints only from the chunks it claimed.
C2_DisjointWithinEpoch ==
    /\ \A a, b \in DOMAIN batches :
          (a # b /\ batches[a].epoch = batches[b].epoch) =>
              /\ batches[a].chunks \cap batches[b].chunks = {}
              /\ batches[a].dps \cap batches[b].dps = {}
    /\ \A a \in DOMAIN batches :
          batches[a].dps \subseteq
              UNION {DatapointIndicesForTensor(ds, t) : t \in batches[a].chunks}

\* C2 witness: two consumers work at the same time on two batches of one
\* epoch, and both have sampled datapoints.
C2_Witness ==
    \E c1, c2 \in Consumers :
        /\ c1 # c2
        /\ InFlight(c1) /\ InFlight(c2)
        /\ batches[loc[c1].bid].epoch = batches[loc[c2].bid].epoch
        /\ batches[loc[c1].bid].dps # {}
        /\ batches[loc[c2].bid].dps # {}

\* the lock is held by the one consumer inside the claim step and by no
\* consumer outside it; a buffer is written only by the call that
\* allocated it, and two running calls never have the same buffer
LockDiscipline ==
    /\ Cardinality({c \in Consumers : loc[c].pc \in {"locked", "claimed"}}) <= 1
    /\ \A c \in Consumers :
          /\ loc[c].pc \in {"locked", "claimed"} => lock = c
          /\ loc[c].pc \in {"alloc", "load", "done", "raised", "idle"} => lock # c
    /\ \A b \in DOMAIN heap : heap[b].writers \subseteq {heap[b].owner}
    /\ \A c1, c2 \in Consumers :
          (c1 # c2 /\ loc[c1].pc \in {"load", "done"}
                   /\ loc[c2].pc \in {"load", "done"}) => loc[c1].buf # loc[c2].buf

\* C3: at most one consumer is in the step that advances the index
\* generator, and it holds the lock; no consumer holds the lock while it
\* runs _get_batches_of_transformed_samples; the lock is held only inside
\* the claim step, whose end (normal or by an exception) releases it, so a
\* held lock always becomes free again; and every batch buffer is written
\* only by the call that allocated it.
C3_ClaimSerialized ==
    /\ []LockDiscipline
    /\ \A c \in Consumers : (lock = c) ~> (lock = NoOne)

\* C3 witness: one consumer is inside the claim step while another is
\* filling the buffer of the batch it claimed before.
C3_Witness ==
    \E c1, c2 \in Consumers :
        /\ loc[c1].pc = "locked"
        /\ loc[c2].pc = "load"
        /\ heap[loc[c2].buf].writers = {c2}

\* the exceptional exit of the claim step is taken as well: a call whose
\* claim step raised has given the lock back
ClaimRaisedReleased ==
    \E c \in Consumers : loc[c].pc = "raised" /\ loc[c].buf = 0 /\ lock = NoOne

\* the labels stored in the dataset
DatasetLabels == {LabelOf(i) : i \in 0..(ds.num_datapoints - 1)}

\* the labels of the selection fit() worked on reach the largest label of
\* the dataset (as they do when fit() covered every chunk)
FitCoversLabels == max_output >= SetMax(DatasetLabels)

\* num_classes is max_output + 1, every sampled label is a class index, and
\* every written row of the label batch has width num_classes and a single
\* 1, in the column of the datapoint's label
OneHotLabels ==
    /\ it_state = "built" => self.num_classes = max_output + 1
    /\ \A b \in DOMAIN batches : \A dp \in batches[b].dps :
          LabelOf(dp) >= 0 /\ LabelOf(dp) < self.num_classes
    /\ \A h \in DOMAIN heap : \A s \in DOMAIN heap[h].y :
          heap[h].y[s].dp # Placeholder =>
              LET row == heap[h].y[s].row
              IN /\ Len(row) = self.num_classes
                 /\ \A k \in 1..Len(row) :
                        row[k] = IF k = LabelOf(heap[h].y[s].dp) + 1 THEN 1 ELSE 0
                 /\ Cardinality({k \in 1..Len(row) : row[k] = 1}) = 1

\* C13 (as claimed): for whatever num_tensors the generator was fitted with,
\* the iterator's num_classes is max_output + 1, every label it samples is
\* below num_classes, and every label row is the one-hot row of its label.
C13_OneHotForEveryFit == OneHotLabels

\* C13 (amended): the same, for an iterator whose generator was fitted on
\* chunks that hold the largest label of the dataset.
C13_OneHotWhenFitCovers == FitCoversLabels => OneHotLabels

\* C13 witness: a label row for a datapoint with label 1 has been written
\* by an iterator with two classes.
C13_Witness ==
    /\ FitCoversLabels
    /\ self.num_classes = 2
    /\ \E h \in DOMAIN heap : \E s \in DOMAIN heap[h].y :
          /\ heap[h].y[s].dp # Placeholder
          /\ LabelOf(heap[h].y[s].dp) = 1
          /\ heap[h].y[s].row = <<0, 1>>

\* the call of consumer c raised inside the fill loop
RaisedInLoop(c) ==
    /\ loc[c].pc = "raised"
    /\ loc[c].buf # 0
    /\ loc[c].pos <= Len(loc[c].index_array)

\* C14 (as claimed): while a batch is assembled, for any number of input
\* fields, the first num_queued slots of every input field and of the label
\* batch hold the sampled datapoints, slot k of every field and label row k
\* the same datapoint; the slots from num_queued on are still unwritten;
\* num_queued never exceeds batch_size and no write goes past the last slot
\* (no IndexError from the buffers).
C14_RowsAligned ==
    \A c \in Consumers :
        /\ loc[c].pc \in {"load", "done"} =>
              LET buf == heap[loc[c].buf]
              IN /\ loc[c].num_queued <= self.iter_batch_size
                 /\ \A s \in 1..self.iter_batch_size :
                       \A name \in DOMAIN buf.x :
                          IF s <= loc[c].num_queued
                          THEN /\ buf.y[s].dp # Placeholder
                               /\ buf.x[name][s] = buf.y[s].dp
                          ELSE /\ buf.y[s].dp = Placeholder
                               /\ buf.x[name][s] = Placeholder
        /\ (RaisedInLoop(c) /\ FitCoversLabels) => loc[c].err # "IndexError"

\* C7: a field name that the dataset does not declare makes the constructor
\* raise ValueError with no attribute assigned and no index generator
\* created; with all names declared it raises nothing and builds the iterator.
C7_EagerNameCheck ==
    it_state # "new" =>
        LET undeclared ==
                \/ \E i \in 1..Len(it_args.x_names) :
                      it_args.x_names[i] \notin FieldNames
                \/ it_args.y_name \notin FieldNames
        IN IF undeclared
           THEN /\ it_state = "failed"
                /\ it_err = "ValueError"
                /\ self.assigned = {}
                /\ ~gen.live
           ELSE /\ it_state = "built"
                /\ it_err = ""
                /\ self.assigned = IteratorAttrs

\* C7 witness: a constructor call with a declared first input field and
\* an undeclared second one has failed.
C7_Witness ==
    /\ it_state = "failed"
    /\ Len(it_args.x_names) = 2
    /\ it_args.x_names[1] \in FieldNames
    /\ it_args.y_name \in FieldNames

====
